---- MODULE Spec2Model ----
(***************************************************************************)
(* BRArchive codec of sitm.py: read_header, read_entry_descriptor,         *)
(* decode_brarchive_to_dict and encode_brarchive, at the level of bytes.   *)
(*                                                                         *)
(* A byte string is a sequence over 0..255.  A str is a sequence of code   *)
(* points.  A dict is the sequence of its <<key, value>> items in          *)
(* insertion order, keys pairwise distinct.  Integers the code handles     *)
(* that do not fit a 31-bit machine word (u32 fields, content sizes, the   *)
(* u64 magic) are kept exactly, in base 65536:                             *)
(*   a size is [hi |-> h, lo |-> l], standing for h * 65536 + l;           *)
(*   a u64 is the tuple of its four 16-bit limbs, least significant first. *)
(***************************************************************************)
EXTENDS Integers, Sequences, FiniteSets, TLC

VARIABLES
    pc,            \* position of the session: which call comes next
    files_dict,    \* input of encode_brarchive: dict name -> content
    file_sizes,    \* the same input given by sizes only: dict name -> size
    archive_data,  \* outcome of encode_brarchive: [status, buf]
    data,          \* the uploaded buffer handed to decode_brarchive_to_dict
    decoded        \* outcome of decode_brarchive_to_dict

vars == <<pc, files_dict, file_sizes, archive_data, data, decoded>>

-----------------------------------------------------------------------------
(* Program constants *)

\* MAGIC = 0x267052A0B125277D, as 16-bit limbs 0x277D, 0xB125, 0x52A0, 0x2670
MAGIC == <<10109, 45349, 21152, 9840>>
ENTRY_NAME_LEN_MAX == 247
\* Mutant: version 2 is taken as known too
VersionsWith2 == {1, 2}

VERSIONS == {1}

-----------------------------------------------------------------------------
(* Exact integers *)

Limb == 256 * 256

ToBig(n) == [hi |-> n \div Limb, lo |-> n % Limb]

BigAdd(a, b) ==
    [hi |-> a.hi + b.hi + ((a.lo + b.lo) \div Limb), lo |-> (a.lo + b.lo) % Limb]

\* a - 1, for a > 0
BigPred(a) ==
    IF a.lo > 0 THEN [hi |-> a.hi, lo |-> a.lo - 1]
    ELSE [hi |-> a.hi - 1, lo |-> Limb - 1]

BigLeq(a, b) == a.hi < b.hi \/ (a.hi = b.hi /\ a.lo <= b.lo)

\* 0 <= a <= 4294967295, the range of struct format 'I'
FitsU32(a) == a.hi < Limb

\* min(a, n) for a machine-sized n >= 0
BigMin(a, n) == IF BigLeq(a, ToBig(n)) THEN a.hi * Limb + a.lo ELSE n

-----------------------------------------------------------------------------
(* Python built-ins the codec relies on *)

Min(a, b) == IF a <= b THEN a ELSE b

\* n times the item c, by halving
RECURSIVE Rep(_, _)
Rep(c, n) ==
    IF n = 0 THEN <<>>
    ELSE IF n = 1 THEN <<c>>
    ELSE Rep(c, n \div 2) \o Rep(c, n - (n \div 2))

\* bytearray(n): n zero bytes
ZeroBytes(n) == Rep(0, n)

\* data[start:stop] for 0 <= start, 0 <= stop: clamped to the buffer, never an error
PySlice(s, start, stop) ==
    LET lo == Min(start, Len(s))
        hi == Min(stop, Len(s))
    IN  IF hi <= lo THEN <<>> ELSE SubSeq(s, lo + 1, hi)

\* data[start:stop] where start and stop are exact integers
PySliceBig(s, start, stop) ==
    LET lo == BigMin(start, Len(s))
        hi == BigMin(stop, Len(s))
    IN  IF hi <= lo THEN <<>> ELSE SubSeq(s, lo + 1, hi)

\* struct.pack('<I', v) for v in range; the caller tests FitsU32 first
PackI(v) == <<v.lo % 256, v.lo \div 256, v.hi % 256, v.hi \div 256>>

\* struct.unpack('<I', b)[0] for len(b) = 4
UnpackI(b) == [hi |-> b[3] + 256 * b[4], lo |-> b[1] + 256 * b[2]]

\* struct.pack('<Q', v)
PackQ(v) ==
    <<v[1] % 256, v[1] \div 256, v[2] % 256, v[2] \div 256,
      v[3] % 256, v[3] \div 256, v[4] % 256, v[4] \div 256>>

\* struct.unpack('<Q', b)[0] for len(b) = 8
UnpackQ(b) ==
    <<b[1] + 256 * b[2], b[3] + 256 * b[4], b[5] + 256 * b[6], b[7] + 256 * b[8]>>

\* UTF-8 encoding of one code point; <<>> for a surrogate, which has none
Utf8Char(c) ==
    IF c < 128 THEN <<c>>
    ELSE IF c < 2048 THEN <<192 + (c \div 64), 128 + (c % 64)>>
    ELSE IF c >= 55296 /\ c <= 57343 THEN <<>>
    ELSE IF c < 65536 THEN
        <<224 + (c \div 4096), 128 + ((c \div 64) % 64), 128 + (c % 64)>>
    ELSE <<240 + (c \div 262144), 128 + ((c \div 4096) % 64),
           128 + ((c \div 64) % 64), 128 + (c % 64)>>

IsSurrogate(c) == c >= 55296 /\ c <= 57343

\* b"".join(parts[lo..hi]), by halving
RECURSIVE JoinRange(_, _, _)
JoinRange(parts, lo, hi) ==
    IF lo > hi THEN <<>>
    ELSE IF lo = hi THEN parts[lo]
    ELSE LET mid == (lo + hi) \div 2
         IN  JoinRange(parts, lo, mid) \o JoinRange(parts, mid + 1, hi)

Join(parts) == JoinRange(parts, 1, Len(parts))

\* name.encode('utf-8'): [ok, bytes]; not ok is UnicodeEncodeError
Utf8Encode(name) ==
    IF \E i \in 1..Len(name) : IsSurrogate(name[i])
    THEN [ok |-> FALSE, bytes |-> <<>>]
    ELSE [ok |-> TRUE, bytes |-> Join([i \in 1..Len(name) |-> Utf8Char(name[i])])]

IsCont(b) == b >= 128 /\ b <= 191

\* Number of bytes of the well-formed UTF-8 sequence starting at b[i], 0 if none
Utf8SeqLen(b, i) ==
    LET n  == Len(b)
        b0 == b[i]
        b1 == IF i + 1 <= n THEN b[i + 1] ELSE 0
        b2 == IF i + 2 <= n THEN b[i + 2] ELSE 0
        b3 == IF i + 3 <= n THEN b[i + 3] ELSE 0
    IN  IF b0 < 128 THEN 1
        ELSE IF b0 >= 194 /\ b0 <= 223 THEN (IF IsCont(b1) THEN 2 ELSE 0)
        ELSE IF b0 >= 224 /\ b0 <= 239 THEN
            (IF /\ IsCont(b1) /\ IsCont(b2)
                /\ (b0 = 224 => b1 >= 160)
                /\ (b0 = 237 => b1 <= 159)
             THEN 3 ELSE 0)
        ELSE IF b0 >= 240 /\ b0 <= 244 THEN
            (IF /\ IsCont(b1) /\ IsCont(b2) /\ IsCont(b3)
                /\ (b0 = 240 => b1 >= 144)
                /\ (b0 = 244 => b1 <= 143)
             THEN 4 ELSE 0)
        ELSE 0

\* The code point of the well-formed k-byte sequence starting at b[i]
Utf8CodePoint(b, i, k) ==
    IF k = 1 THEN b[i]
    ELSE IF k = 2 THEN (b[i] - 192) * 64 + (b[i + 1] - 128)
    ELSE IF k = 3 THEN
        (b[i] - 224) * 4096 + (b[i + 1] - 128) * 64 + (b[i + 2] - 128)
    ELSE (b[i] - 240) * 262144 + (b[i + 1] - 128) * 4096
         + (b[i + 2] - 128) * 64 + (b[i + 3] - 128)

\* b.decode('utf-8'): [ok, str]; not ok is UnicodeDecodeError.  The bytes are
\* well formed when a sequence starts at the first byte and at every byte that
\* is not a continuation byte, each sequence is well formed, and each ends
\* where the next one starts or at the end.
Utf8Decode(b) ==
    LET IsLead(i) == ~IsCont(b[i])
        leads == SelectSeq([i \in 1..Len(b) |-> i], IsLead)
        wellFormed ==
            /\ b # <<>> => IsLead(1)
            /\ \A n \in 1..Len(leads) :
                  LET k == Utf8SeqLen(b, leads[n])
                  IN  /\ k > 0
                      /\ leads[n] + k = (IF n < Len(leads) THEN leads[n + 1]
                                         ELSE Len(b) + 1)
    IN  IF ~wellFormed THEN [ok |-> FALSE, str |-> <<>>]
        ELSE [ok |-> TRUE,
              str |-> [n \in 1..Len(leads) |->
                          Utf8CodePoint(b, leads[n], Utf8SeqLen(b, leads[n]))]]

\* a < b for str: by code point at the first difference, a proper prefix first
StrLess(a, b) ==
    LET n == Min(Len(a), Len(b))
        diff == {i \in 1..n : a[i] # b[i]}
    IN  IF diff = {} THEN Len(a) < Len(b)
        ELSE LET first == CHOOSE i \in diff : \A j \in diff : i <= j
             IN  a[first] < b[first]

\* insertion of one item into a list sorted by key
RECURSIVE InsertSorted(_, _)
InsertSorted(item, sorted) ==
    IF sorted = <<>> THEN <<item>>
    ELSE IF StrLess(item[1], Head(sorted)[1]) THEN <<item>> \o sorted
    ELSE <<Head(sorted)>> \o InsertSorted(item, Tail(sorted))

RECURSIVE SortFrom(_, _, _)
SortFrom(items, i, acc) ==
    IF i > Len(items) THEN acc
    ELSE SortFrom(items, i + 1, InsertSorted(items[i], acc))

\* Mutant: the items are taken in the dict's own order
ItemsInDictOrder(d) == d

\* sorted(d.items()): the keys of a dict are distinct, so the key alone decides
SortedItems(d) == SortFrom(d, 1, <<>>)

\* Mutant: a key already present keeps its first value
DictSetKeepFirst(d, k, v) ==
    IF \E i \in 1..Len(d) : d[i][1] = k THEN d ELSE Append(d, <<k, v>>)

\* Mutant: every assignment adds an item, as on a list of pairs
DictSetAppend(d, k, v) == Append(d, <<k, v>>)

\* d[k] = v on a dict: replace in place, or append a new key
DictSet(d, k, v) ==
    IF \E i \in 1..Len(d) : d[i][1] = k
    THEN [i \in 1..Len(d) |-> IF d[i][1] = k THEN <<k, v>> ELSE d[i]]
    ELSE Append(d, <<k, v>>)

-----------------------------------------------------------------------------
(* Decoder *)

\* Outcome of read_header: the returned triple, or the exception raised
read_header(buf, offset) ==
    LET m == PySlice(buf, offset, offset + 8)
        e == PySlice(buf, offset + 8, offset + 12)
        v == PySlice(buf, offset + 12, offset + 16)
        failed(err) == [status |-> err, entries |-> ToBig(0), version |-> ToBig(0),
                        next |-> offset]
    IN  IF Len(m) # 8 THEN failed("StructError")
        ELSE IF UnpackQ(m) # MAGIC THEN failed("MagicMismatch")
        ELSE IF Len(e) # 4 THEN failed("StructError")
        ELSE IF Len(v) # 4 THEN failed("StructError")
        ELSE IF ~(\E known \in VERSIONS : UnpackI(v) = ToBig(known))
             THEN failed("UnsupportedVersion")
        ELSE [status |-> "OK", entries |-> UnpackI(e), version |-> UnpackI(v),
              next |-> offset + 16]

\* Mutant: contents_offset and contents_len are read from what is left of the
\* file, short fields taken as if zeros followed
ReadEntryDescriptorLenient(buf, offset) ==
    LET n == PySlice(buf, offset, offset + 1)
        padded == buf \o ZeroBytes(8)
        failed(err) == [status |-> err, name |-> <<>>, contents_offset |-> ToBig(0),
                        contents_len |-> ToBig(0), next_offset |-> offset]
    IN  IF Len(n) # 1 THEN failed("StructError")
        ELSE IF n[1] > ENTRY_NAME_LEN_MAX THEN failed("NameTooLong")
        ELSE
          LET name == Utf8Decode(PySlice(buf, offset + 1, offset + 1 + n[1]))
              o == PySlice(padded, offset + 1 + ENTRY_NAME_LEN_MAX,
                           offset + 1 + ENTRY_NAME_LEN_MAX + 4)
              l == PySlice(padded, offset + 1 + ENTRY_NAME_LEN_MAX + 4,
                           offset + 1 + ENTRY_NAME_LEN_MAX + 8)
          IN  IF ~name.ok THEN failed("UnicodeDecodeError")
              ELSE IF Len(o) # 4 THEN failed("StructError")
              ELSE IF Len(l) # 4 THEN failed("StructError")
              ELSE [status |-> "OK", name |-> name.str, contents_offset |-> UnpackI(o),
                    contents_len |-> UnpackI(l),
                    next_offset |-> offset + 1 + ENTRY_NAME_LEN_MAX + 8]

\* Outcome of read_entry_descriptor: the returned 4-tuple, or the exception raised
read_entry_descriptor(buf, offset) ==
    LET n == PySlice(buf, offset, offset + 1)
        failed(err) == [status |-> err, name |-> <<>>, contents_offset |-> ToBig(0),
                        contents_len |-> ToBig(0), next_offset |-> offset]
    IN  IF Len(n) # 1 THEN failed("StructError")
        ELSE IF n[1] > ENTRY_NAME_LEN_MAX THEN failed("NameTooLong")
        ELSE
          LET name == Utf8Decode(PySlice(buf, offset + 1, offset + 1 + n[1]))
              o == PySlice(buf, offset + 1 + ENTRY_NAME_LEN_MAX,
                           offset + 1 + ENTRY_NAME_LEN_MAX + 4)
              l == PySlice(buf, offset + 1 + ENTRY_NAME_LEN_MAX + 4,
                           offset + 1 + ENTRY_NAME_LEN_MAX + 8)
          IN  IF ~name.ok THEN failed("UnicodeDecodeError")
              ELSE IF Len(o) # 4 THEN failed("StructError")
              ELSE IF Len(l) # 4 THEN failed("StructError")
              ELSE [status |-> "OK", name |-> name.str, contents_offset |-> UnpackI(o),
                    contents_len |-> UnpackI(l),
                    next_offset |-> offset + 1 + ENTRY_NAME_LEN_MAX + 8]

\* The loop "for i in range(entries_count)": todo iterations are left, acc is
\* entry_descriptors.  Ends with the list and the offset, or with the exception.
RECURSIVE ReadDescriptors(_, _, _, _)
ReadDescriptors(buf, offset, todo, acc) ==
    IF todo = ToBig(0) THEN [status |-> "OK", descriptors |-> acc, offset |-> offset]
    ELSE LET d == read_entry_descriptor(buf, offset)
         IN  IF d.status # "OK"
             THEN [status |-> d.status, descriptors |-> acc, offset |-> offset]
             ELSE ReadDescriptors(buf, d.next_offset, BigPred(todo),
                                  Append(acc, <<d.name, d.contents_offset, d.contents_len>>))

\* Mutant: the contents are taken one after the other in descriptor order,
\* each where the one before it ended, whatever contents_offset says
RECURSIVE ExtractFilesSequential(_, _, _, _, _)
ExtractFilesSequential(buf, contents_start, descriptors, i, files) ==
    IF i > Len(descriptors) THEN files
    ELSE LET actual_offset == ToBig(contents_start)
             stop == BigAdd(actual_offset, descriptors[i][3])
             file_contents == PySliceBig(buf, actual_offset, stop)
         IN  ExtractFilesSequential(buf, contents_start + Len(file_contents),
                                    descriptors, i + 1,
                                    DictSet(files, descriptors[i][1], file_contents))

\* The loop over entry_descriptors that fills files_dict
RECURSIVE ExtractFiles(_, _, _, _, _)
ExtractFiles(buf, contents_start, descriptors, i, files) ==
    IF i > Len(descriptors) THEN files
    ELSE LET actual_offset == BigAdd(ToBig(contents_start), descriptors[i][2])
             file_contents == PySliceBig(buf, actual_offset,
                                         BigAdd(actual_offset, descriptors[i][3]))
         IN  ExtractFiles(buf, contents_start, descriptors, i + 1,
                          DictSet(files, descriptors[i][1], file_contents))

\* Outcome of decode_brarchive_to_dict: status "OK" and ret = <<files_dict,
\* entries_count, version>>, or the exception raised and ret = <<>>.
\* descriptors is entry_descriptors as it stood when the call ended.
decode_brarchive_to_dict(buf) ==
    LET h == read_header(buf, 0)
    IN  IF h.status # "OK"
        THEN [status |-> h.status, ret |-> <<>>, descriptors |-> <<>>]
        ELSE LET r == ReadDescriptors(buf, h.next, h.entries, <<>>)
             IN  IF r.status # "OK"
                 THEN [status |-> r.status, ret |-> <<>>, descriptors |-> r.descriptors]
                 ELSE [status |-> "OK",
                       ret |-> <<ExtractFiles(buf, r.offset, r.descriptors, 1, <<>>),
                                 h.entries, h.version>>,
                       descriptors |-> r.descriptors]

-----------------------------------------------------------------------------
(* Encoder *)

\* Mutant: the limit is applied to the number of characters of the name
RECURSIVE BuildDescriptorsCountChars(_, _, _, _)
BuildDescriptorsCountChars(items, i, current_offset, acc) ==
    IF i > Len(items) THEN [status |-> "OK", descriptors |-> acc]
    ELSE LET name_bytes == Utf8Encode(items[i][1])
             name_len == Len(name_bytes.bytes)
         IN  IF ~name_bytes.ok THEN [status |-> "UnicodeEncodeError", descriptors |-> acc]
             ELSE IF Len(items[i][1]) > ENTRY_NAME_LEN_MAX
                  THEN [status |-> "NameTooLong", descriptors |-> acc]
             ELSE BuildDescriptorsCountChars(items, i + 1,
                      BigAdd(current_offset, items[i][2]),
                      Append(acc, [name |-> name_bytes.bytes, name_len |-> name_len,
                                   offset |-> current_offset, length |-> items[i][2]]))

\* Mutant: current_offset is advanced before the descriptor is recorded
RECURSIVE BuildDescriptorsOffsetAfter(_, _, _, _)
BuildDescriptorsOffsetAfter(items, i, current_offset, acc) ==
    IF i > Len(items) THEN [status |-> "OK", descriptors |-> acc]
    ELSE LET name_bytes == Utf8Encode(items[i][1])
             name_len == Len(name_bytes.bytes)
         IN  IF ~name_bytes.ok THEN [status |-> "UnicodeEncodeError", descriptors |-> acc]
             ELSE IF name_len > ENTRY_NAME_LEN_MAX
                  THEN [status |-> "NameTooLong", descriptors |-> acc]
             ELSE BuildDescriptorsOffsetAfter(items, i + 1,
                      BigAdd(current_offset, items[i][2]),
                      Append(acc, [name |-> name_bytes.bytes, name_len |-> name_len,
                                   offset |-> BigAdd(current_offset, items[i][2]),
                                   length |-> items[i][2]]))

\* The loop over sorted(files_dict.items()) that builds descriptors; an item is
\* <<name, len(content)>>.  Ends with the list, or with the exception.
RECURSIVE BuildDescriptors(_, _, _, _)
BuildDescriptors(items, i, current_offset, acc) ==
    IF i > Len(items) THEN [status |-> "OK", descriptors |-> acc]
    ELSE LET name_bytes == Utf8Encode(items[i][1])
             name_len == Len(name_bytes.bytes)
         IN  IF ~name_bytes.ok THEN [status |-> "UnicodeEncodeError", descriptors |-> acc]
             ELSE IF name_len > ENTRY_NAME_LEN_MAX
                  THEN [status |-> "NameTooLong", descriptors |-> acc]
             ELSE BuildDescriptors(items, i + 1, BigAdd(current_offset, items[i][2]),
                      Append(acc, [name |-> name_bytes.bytes, name_len |-> name_len,
                                   offset |-> current_offset, length |-> items[i][2]]))

\* The 256 bytes written for one descriptor
DescriptorBytes(desc) ==
    LET name_buf == ZeroBytes(ENTRY_NAME_LEN_MAX)
    IN  <<desc.name_len>>
        \o desc.name \o SubSeq(name_buf, desc.name_len + 1, ENTRY_NAME_LEN_MAX)
        \o PackI(desc.offset) \o PackI(desc.length)

\* Mutant: a value out of range is written modulo 2^32
RECURSIVE WriteDescriptorsWrapping(_, _, _)
WriteDescriptorsWrapping(descriptors, i, buf) ==
    IF i > Len(descriptors) THEN [status |-> "OK", buf |-> buf]
    ELSE LET wrap(v) == [hi |-> v.hi % Limb, lo |-> v.lo]
         IN  WriteDescriptorsWrapping(descriptors, i + 1,
                 buf \o DescriptorBytes([descriptors[i] EXCEPT
                                            !.offset = wrap(@), !.length = wrap(@)]))

\* The loop that writes the descriptors after buf; struct.pack('<I', v) raises
\* struct.error for v > 4294967295
RECURSIVE WriteDescriptors(_, _, _)
WriteDescriptors(descriptors, i, buf) ==
    IF i > Len(descriptors) THEN [status |-> "OK", buf |-> buf]
    ELSE IF ~FitsU32(descriptors[i].offset) \/ ~FitsU32(descriptors[i].length)
         THEN [status |-> "StructError", buf |-> <<>>]
    ELSE WriteDescriptors(descriptors, i + 1, buf \o DescriptorBytes(descriptors[i]))

\* Mutant: the version is written before the entry count
HeaderBytesVersionFirst(n) == PackQ(MAGIC) \o PackI(ToBig(1)) \o PackI(ToBig(n))

\* The header encode_brarchive writes for a dict of n items
HeaderBytes(n) == PackQ(MAGIC) \o PackI(ToBig(n)) \o PackI(ToBig(1))

\* encode_brarchive up to and including the descriptor table, for the sorted
\* items <<name, len(content)>>
EncodeTable(items) ==
    LET built == BuildDescriptors(items, 1, ToBig(0), <<>>)
    IN  IF built.status # "OK" THEN [status |-> built.status, buf |-> <<>>]
        ELSE WriteDescriptors(built.descriptors, 1, HeaderBytes(Len(items)))

\* The loop that appends every content, in sorted order
RECURSIVE WriteContents(_, _, _)
WriteContents(items, i, buf) ==
    IF i > Len(items) THEN buf ELSE WriteContents(items, i + 1, buf \o items[i][2])

\* Mutant: the contents are appended in the dict's own order, not sorted
EncodeContentsInDictOrder(d) ==
    LET items == SortedItems(d)
        table == EncodeTable([i \in 1..Len(items) |->
                                 <<items[i][1], ToBig(Len(items[i][2]))>>])
    IN  IF table.status # "OK" THEN table
        ELSE [status |-> "OK", buf |-> WriteContents(d, 1, table.buf)]

\* Outcome of encode_brarchive: status "OK" and the bytes returned, or the
\* exception raised and no bytes
encode_brarchive(d) ==
    LET items == SortedItems(d)
        table == EncodeTable([i \in 1..Len(items) |->
                                 <<items[i][1], ToBig(Len(items[i][2]))>>])
    IN  IF table.status # "OK" THEN table
        ELSE [status |-> "OK", buf |-> WriteContents(SortedItems(d), 1, table.buf)]

\* The loop that appends every content, in sorted order, for contents given by
\* their sizes: the lengths appended so far and the length of buf
RECURSIVE WriteContentSizes(_, _, _)
WriteContentSizes(items, i, out) ==
    IF i > Len(items) THEN out
    ELSE WriteContentSizes(items, i + 1,
                           [contents |-> Append(out.contents, items[i][2]),
                            length |-> BigAdd(out.length, items[i][2])])

\* Outcome of encode_brarchive on a dict given by sizes.  The bytes returned are
\* given by: table, the header and the descriptor table that they start with;
\* contents, the lengths of the contents that follow it, in the order written;
\* length, how many bytes they are in all.
encode_sizes(d) ==
    LET items == SortedItems(d)
        table == EncodeTable(items)
        written == WriteContentSizes(items, 1,
                                     [contents |-> <<>>, length |-> ToBig(Len(table.buf))])
    IN  IF table.status # "OK"
        THEN [status |-> table.status, table |-> <<>>, contents |-> <<>>,
              length |-> ToBig(0)]
        ELSE [status |-> "OK", table |-> table.buf, contents |-> written.contents,
              length |-> written.length]

-----------------------------------------------------------------------------
(* Inputs *)

MaxEntries == 2        \* items in a dict handed to encode_brarchive
MaxDescriptors == 2    \* descriptors in a hand-made upload
MaxCut == 1            \* bytes missing at the end of a file cut short
MaxSizeEntries == 3    \* items in a dict given by sizes

U32Max == [hi |-> Limb - 1, lo |-> Limb - 1]

\* "a.txt", "b.txt", "", 247 and 248 times "a", 124 times U+00E9 (248 bytes)
NameATxt == <<97, 46, 116, 120, 116>>
NameBTxt == <<98, 46, 116, 120, 116>>
Names ==
    {NameATxt, NameBTxt, <<>>, Rep(97, ENTRY_NAME_LEN_MAX),
     Rep(97, ENTRY_NAME_LEN_MAX + 1), Rep(233, 124)}

\* b"", b"hi", b"bye"
Contents == {<<>>, <<104, 105>>, <<98, 121, 101>>}

Keys(d) == {d[i][1] : i \in 1..Len(d)}

\* The dicts of exactly n items over the given keys and values, in every
\* insertion order
RECURSIVE DictsOfLen(_, _, _)
DictsOfLen(n, keys, values) ==
    IF n = 0 THEN {<<>>}
    ELSE UNION {{Append(d, <<k, v>>) : k \in keys \ Keys(d), v \in values} :
                d \in DictsOfLen(n - 1, keys, values)}

\* The dicts of at most max items handed to encode_brarchive
InputDicts(max) == UNION {DictsOfLen(n, Names, Contents) : n \in 0..max}

\* Sizes around the limit of a u32 field: 4, 5, 2^32 - 5, 2^32
Sizes == {ToBig(4), ToBig(5), [hi |-> Limb - 1, lo |-> Limb - 5], [hi |-> Limb, lo |-> 0]}

SizeNames == {<<97>>, <<98>>, <<99>>, Rep(97, ENTRY_NAME_LEN_MAX + 1)}

\* The dicts of at most max items, given by sizes
InputSizeDicts(max) == UNION {DictsOfLen(n, SizeNames, Sizes) : n \in 0..max}

\* One hand-made descriptor: name_len, the first bytes of the name field, the
\* byte that fills the rest of it, contents_offset and contents_len
RawDescriptor(name_len, prefix, fill, offset, length) ==
    <<name_len>> \o prefix \o Rep(fill, ENTRY_NAME_LEN_MAX - Len(prefix))
    \o PackI(offset) \o PackI(length)

RawDescriptors ==
    {RawDescriptor(1, <<97>>, 0, ToBig(0), ToBig(2)),         \* "a" -> [0, 2)
     RawDescriptor(1, <<97>>, 255, ToBig(2), ToBig(3)),       \* "a" again -> [2, 5)
     RawDescriptor(1, <<98>>, 0, ToBig(1), ToBig(3)),         \* "b" -> [1, 4)
     RawDescriptor(1, <<99>>, 7, ToBig(3), ToBig(2)),         \* "c" -> [3, 5)
     RawDescriptor(2, <<195, 169>>, 0, ToBig(4), ToBig(4)),   \* U+00E9 -> [4, 8)
     RawDescriptor(0, <<>>, 0, U32Max, U32Max),               \* "" -> far outside
     RawDescriptor(ENTRY_NAME_LEN_MAX, <<>>, 97, ToBig(0), ToBig(5)),
     RawDescriptor(ENTRY_NAME_LEN_MAX + 1, <<>>, 97, ToBig(0), ToBig(0)),
     RawDescriptor(255, <<>>, 97, ToBig(0), ToBig(0)),
     RawDescriptor(1, <<255>>, 0, ToBig(0), ToBig(0))}        \* not UTF-8

RECURSIVE SeqsOfLen(_, _)
SeqsOfLen(n, S) ==
    IF n = 0 THEN {<<>>}
    ELSE {Append(q, x) : q \in SeqsOfLen(n - 1, S), x \in S}

\* b"", b"hibye"
RawContents == {<<>>, <<104, 105, 98, 121, 101>>}

\* Files with a good header, a table of at most max hand-made descriptors and a
\* content region
TableUploads(max) ==
    {HeaderBytes(Len(q)) \o Join(q) \o c :
        q \in UNION {SeqsOfLen(n, RawDescriptors) : n \in 0..max},
        c \in RawContents}

\* The magic with bit k (0..63, bit 0 the lowest of the first byte) flipped
FlipBit(b, k) ==
    LET at == (k \div 8) + 1
        bit == 2 ^ (k % 8)
    IN  [j \in 1..Len(b) |->
            IF j # at THEN b[j]
            ELSE IF (b[j] \div bit) % 2 = 1 THEN b[j] - bit ELSE b[j] + bit]

\* Files whose header holds any magic at most one bit away from MAGIC, any of
\* the versions 0, 1, 2, 65537 and an entry count of 0, 1 or 2, before one
\* descriptor and its content
HeaderUploads ==
    {m \o PackI(ToBig(n)) \o PackI(ToBig(v))
       \o RawDescriptor(1, <<97>>, 0, ToBig(0), ToBig(2)) \o <<104, 105>> :
        m \in {PackQ(MAGIC)} \cup {FlipBit(PackQ(MAGIC), k) : k \in 0..63},
        n \in 0..2, v \in {0, 1, 2, Limb + 1}}

\* Files that end inside the header, with the magic or with its lowest bit flipped
ShortUploads ==
    {PySlice(m \o PackI(ToBig(0)) \o PackI(ToBig(1)), 0, n) :
        m \in {PackQ(MAGIC), FlipBit(PackQ(MAGIC), 0)}, n \in 0..15}

Uploads(max) == TableUploads(max) \cup HeaderUploads \cup ShortUploads

\* The whole descriptors that come before the place where a file ends
WholeDescriptors ==
    {RawDescriptor(1, <<97>>, 0, ToBig(0), ToBig(0)),         \* "a" -> [0, 0)
     RawDescriptor(1, <<98>>, 255, ToBig(0), ToBig(2)),       \* "b" -> [0, 2)
     RawDescriptor(1, <<255>>, 0, ToBig(0), ToBig(0))}        \* not UTF-8

\* Files with a good header that announces at most max descriptors and that end
\* before the last announced one does: some whole descriptors, then the
\* first 0..255 bytes of one more
CutUploads(max) ==
    UNION {{HeaderBytes(n) \o Join(q) \o PySlice(d, 0, c) :
               q \in UNION {SeqsOfLen(k, WholeDescriptors) : k \in 0..(n - 1)},
               d \in RawDescriptors,
               c \in 0..255} :
           n \in 1..max}

-----------------------------------------------------------------------------
(* The session *)

NoArchive == [status |-> "none", buf |-> <<>>]
NotDecoded == [status |-> "none", ret |-> <<>>, descriptors |-> <<>>]

\* Either a dict is about to be encoded, or a file has been uploaded
Init ==
    /\ file_sizes = <<>>
    /\ archive_data = NoArchive
    /\ decoded = NotDecoded
    /\ \/ pc = "encode" /\ files_dict \in InputDicts(MaxEntries) /\ data = <<>>
       \/ pc = "uploaded" /\ files_dict = <<>> /\ data \in Uploads(MaxDescriptors)

\* "if files_dict:" and the button pressed:
\* archive_data = encode_brarchive(files_dict)
Encode ==
    /\ pc = "encode"
    /\ files_dict # <<>>
    /\ archive_data' = encode_brarchive(files_dict)
    /\ pc' = "encoded"
    /\ UNCHANGED <<files_dict, file_sizes, data, decoded>>

\* The archive offered for download is uploaded again: data = uploaded_file.read()
Reupload ==
    /\ pc = "encoded"
    /\ archive_data.status = "OK"
    /\ data' = archive_data.buf
    /\ pc' = "uploaded"
    /\ UNCHANGED <<files_dict, file_sizes, archive_data, decoded>>

\* The uploaded file was cut short: its last k bytes are missing
Truncate ==
    /\ pc = "uploaded"
    /\ \E k \in 1..MaxCut :
          /\ k <= Len(data)
          /\ data' = PySlice(data, 0, Len(data) - k)
    /\ pc' = "cut"
    /\ UNCHANGED <<files_dict, file_sizes, archive_data, decoded>>

\* files_dict, entries_count, version = decode_brarchive_to_dict(data)
Decode ==
    /\ pc \in {"uploaded", "cut"}
    /\ decoded' = decode_brarchive_to_dict(data)
    /\ pc' = "done"
    /\ UNCHANGED <<files_dict, file_sizes, archive_data, data>>

Next == Encode \/ Reupload \/ Truncate \/ Decode

Spec == Init /\ [][Next]_vars

\* The encoder alone, on dicts given by their content sizes
InitSizes ==
    /\ pc = "encode"
    /\ files_dict = <<>>
    /\ file_sizes \in InputSizeDicts(MaxSizeEntries)
    /\ archive_data = NoArchive
    /\ data = <<>>
    /\ decoded = NotDecoded

EncodeSizes ==
    /\ pc = "encode"
    /\ file_sizes # <<>>
    /\ archive_data' = encode_sizes(file_sizes)
    /\ pc' = "encoded"
    /\ UNCHANGED <<files_dict, file_sizes, data, decoded>>

NextSizes == EncodeSizes

SpecSizes == InitSizes /\ [][NextSizes]_vars

\* The two functions called one on the result of the other, outside the pages
\* of the app, on any dict, the empty one included
InitCall ==
    /\ pc = "encode"
    /\ files_dict \in InputDicts(MaxEntries)
    /\ file_sizes = <<>>
    /\ archive_data = NoArchive
    /\ data = <<>>
    /\ decoded = NotDecoded

\* archive_data = encode_brarchive(files_dict)
EncodeCall ==
    /\ pc = "encode"
    /\ archive_data' = encode_brarchive(files_dict)
    /\ pc' = "encoded"
    /\ UNCHANGED <<files_dict, file_sizes, data, decoded>>

\* decode_brarchive_to_dict(archive_data), when bytes were returned
DecodeCall ==
    /\ pc = "encoded"
    /\ archive_data.status = "OK"
    /\ data' = archive_data.buf
    /\ decoded' = decode_brarchive_to_dict(archive_data.buf)
    /\ pc' = "done"
    /\ UNCHANGED <<files_dict, file_sizes, archive_data>>

NextCall == EncodeCall \/ DecodeCall

SpecCall == InitCall /\ [][NextCall]_vars

\* The decoder alone, on uploaded files that end inside the descriptor table
InitCut ==
    /\ pc = "uploaded"
    /\ files_dict = <<>>
    /\ file_sizes = <<>>
    /\ archive_data = NoArchive
    /\ data \in CutUploads(MaxDescriptors)
    /\ decoded = NotDecoded

\* files_dict, entries_count, version = decode_brarchive_to_dict(data)
DecodeCut ==
    /\ pc = "uploaded"
    /\ decoded' = decode_brarchive_to_dict(data)
    /\ pc' = "done"
    /\ UNCHANGED <<files_dict, file_sizes, archive_data, data>>

NextCut == DecodeCut

SpecCut == InitCut /\ [][NextCut]_vars

-----------------------------------------------------------------------------
(* What the properties are stated with *)

\* The magic number as it lies in a file
MagicBytes == <<125, 39, 37, 177, 160, 82, 112, 38>>

\* a dict as the set of its items
AsMap(d) == {d[i] : i \in 1..Len(d)}

\* The UTF-8 bytes of an encodable name
NameBytes(name) == Utf8Encode(name).bytes

\* Every name can be encoded and takes at most 247 bytes
ValidNames(d) ==
    \A i \in 1..Len(d) :
        Utf8Encode(d[i][1]).ok /\ Len(NameBytes(d[i][1])) <= ENTRY_NAME_LEN_MAX

\* Byte-wise lexicographic order
BytesLess(a, b) ==
    LET differ == {i \in 1..Min(Len(a), Len(b)) : a[i] # b[i]}
    IN  IF differ = {} THEN Len(a) < Len(b)
        ELSE \E i \in differ : a[i] < b[i] /\ \A j \in differ : i <= j

\* The rearrangements of a sequence
Rearrangements(q) ==
    {[i \in 1..Len(q) |-> q[f[i]]] :
        f \in {g \in [1..Len(q) -> 1..Len(q)] :
                  \A i, j \in 1..Len(q) : g[i] = g[j] => i = j}}

\* The items of a dict in ascending order of the keys given for them
AscendingBy(d, key) ==
    LET before(i) == {j \in 1..Len(d) : BytesLess(key[j], key[i])}
    IN  [r \in 1..Len(d) |-> d[CHOOSE i \in 1..Len(d) : Cardinality(before(i)) = r - 1]]

\* The items of a dict with valid names, in ascending order of the UTF-8 names
Ascending(d) == AscendingBy(d, [i \in 1..Len(d) |-> NameBytes(d[i][1])])

\* Little-endian value of a field of at most three bytes
LittleEndian(b) ==
    IF Len(b) = 0 THEN 0
    ELSE IF Len(b) = 1 THEN b[1]
    ELSE IF Len(b) = 2 THEN b[1] + 256 * b[2]
    ELSE b[1] + 256 * b[2] + 65536 * b[3]

\* A u32 field below 2^24 as a number, -1 otherwise
Field(buf, at) ==
    IF buf[at + 4] # 0 THEN -1 ELSE LittleEndian(PySlice(buf, at, at + 3))

RECURSIVE SumLen(_, _)
SumLen(q, n) == IF n = 0 THEN 0 ELSE SumLen(q, n - 1) + Len(q[n][2])

\* The encoded archive was uploaded as it is and decoded
RoundTripDone ==
    pc = "done" /\ archive_data.status = "OK" /\ data = archive_data.buf

-----------------------------------------------------------------------------
(* Properties *)

\* C1: a dict of names that each take at most 247 UTF-8 bytes is encoded, and
\* decoding the bytes returned gives back the same name -> content mapping,
\* entry_count = number of items and version = 1.
C1_RoundTrip ==
    /\ (pc = "encoded" /\ ValidNames(files_dict)) => archive_data.status = "OK"
    /\ RoundTripDone =>
          /\ decoded.status = "OK"
          /\ AsMap(decoded.ret[1]) = AsMap(files_dict)
          /\ Len(decoded.ret[1]) = Len(files_dict)
          /\ decoded.ret[2] = [hi |-> 0, lo |-> Len(files_dict)]
          /\ decoded.ret[3] = [hi |-> 0, lo |-> 1]

\* A round trip of two items, one under a 247-byte name, both with content
C1_Witness ==
    /\ RoundTripDone
    /\ Len(files_dict) = 2
    /\ \E i \in 1..2 : Len(NameBytes(files_dict[i][1])) = ENTRY_NAME_LEN_MAX
    /\ \A i \in 1..2 : files_dict[i][2] # <<>>
    /\ AsMap(decoded.ret[1]) = AsMap(files_dict)

\* C3: dicts holding the same items in different insertion orders are encoded
\* to the same bytes, and the names in the descriptor table are in strictly
\* ascending byte-wise order.
C3_Deterministic ==
    pc = "encoded" =>
        /\ \A other \in Rearrangements(files_dict) :
              encode_brarchive(other) = archive_data
        /\ archive_data.status = "OK" =>
              \A i \in 1..(Len(files_dict) - 1) :
                  LET at(k) == 16 + 256 * (k - 1)
                      name(k) == PySlice(archive_data.buf, at(k) + 1,
                                         at(k) + 1 + archive_data.buf[at(k) + 1])
                  IN  BytesLess(name(i), name(i + 1))

\* Two items inserted in descending name order were encoded
C3_Witness ==
    /\ pc = "encoded"
    /\ archive_data.status = "OK"
    /\ Len(files_dict) = 2
    /\ BytesLess(NameBytes(files_dict[2][1]), NameBytes(files_dict[1][1]))

\* C9: the empty dict is encoded to exactly the 16 header bytes (magic,
\* entry_count 0, version 1), and decoding them returns the empty mapping,
\* entry_count 0 and version 1.
C9_EmptyArchive ==
    /\ (pc = "encoded" /\ files_dict = <<>>) =>
          archive_data = [status |-> "OK",
                          buf |-> MagicBytes \o <<0, 0, 0, 0>> \o <<1, 0, 0, 0>>]
    /\ (pc = "done" /\ data = MagicBytes \o <<0, 0, 0, 0>> \o <<1, 0, 0, 0>>) =>
          /\ decoded.status = "OK"
          /\ decoded.ret = <<<<>>, [hi |-> 0, lo |-> 0], [hi |-> 0, lo |-> 1]>>

\* The encoding of the empty dict was decoded
C9_Witness ==
    /\ RoundTripDone
    /\ files_dict = <<>>
    /\ Len(data) = 16
    /\ decoded.status = "OK"

\* C10: the bytes returned for n items are 16 + 256 * n + (sum of the content
\* lengths) long, the header holds n, descriptor i in ascending name order
\* holds its name, the sum of the content lengths before it as contents_offset
\* and its content length as contents_len, and the contents follow the table
\* in that order without gaps.  {"a.txt": b"hi", "b.txt": b"bye"} gives 533
\* bytes, offsets 0 and 2, lengths 2 and 3.
C10_GaplessLayout ==
    (pc = "encoded" /\ archive_data.status = "OK") =>
        LET buf == archive_data.buf
            n == Len(files_dict)
            q == Ascending(files_dict)
            start == 16 + 256 * n
        IN  /\ Len(buf) = start + SumLen(q, n)
            /\ Field(buf, 8) = n
            /\ \A i \in 1..n :
                  LET at == 16 + 256 * (i - 1)
                      name == NameBytes(q[i][1])
                  IN  /\ buf[at + 1] = Len(name)
                      /\ PySlice(buf, at + 1, at + 1 + Len(name)) = name
                      /\ \A j \in (at + 2 + Len(name))..(at + 248) : buf[j] = 0
                      /\ Field(buf, at + 248) = SumLen(q, i - 1)
                      /\ Field(buf, at + 252) = Len(q[i][2])
                      /\ PySlice(buf, start + SumLen(q, i - 1), start + SumLen(q, i))
                            = q[i][2]
            /\ AsMap(files_dict) = {<<NameATxt, <<104, 105>>>>, <<NameBTxt, <<98, 121, 101>>>>}
                  => /\ Len(buf) = 533
                     /\ Field(buf, 16 + 248) = 0 /\ Field(buf, 16 + 252) = 2
                     /\ Field(buf, 272 + 248) = 2 /\ Field(buf, 272 + 252) = 3
                     /\ PySlice(buf, 528, 533) = <<104, 105, 98, 121, 101>>

\* {"b.txt": b"bye", "a.txt": b"hi"} was encoded
C10_Witness ==
    /\ pc = "encoded"
    /\ archive_data.status = "OK"
    /\ files_dict = <<<<NameBTxt, <<98, 121, 101>>>>, <<NameATxt, <<104, 105>>>>>>
    /\ Len(archive_data.buf) = 533

\* The file starts with the magic and holds version 1
HeaderOK(buf) ==
    /\ Len(buf) >= 16
    /\ PySlice(buf, 0, 8) = MagicBytes
    /\ PySlice(buf, 12, 16) = <<1, 0, 0, 0>>

\* Where descriptor i (1, 2, ...) starts, as an offset into the file
DescAt(i) == 16 + 256 * (i - 1)

\* The name_len byte of descriptor i is in the file and is 248 or more
HasLongName(buf, i) == DescAt(i) < Len(buf) /\ buf[DescAt(i) + 1] > 247

\* The first name_len bytes of the name field of descriptor i
RawName(buf, i) == PySlice(buf, DescAt(i) + 1, DescAt(i) + 1 + buf[DescAt(i) + 1])

\* Descriptor i is in the file whole, with a name of at most 247 well-formed bytes
RawDescriptorOK(buf, i) ==
    /\ DescAt(i) + 256 <= Len(buf)
    /\ buf[DescAt(i) + 1] <= 247
    /\ Utf8Decode(RawName(buf, i)).ok

\* The header is good and all the descriptors it announces are
WellFormedTable(buf) ==
    /\ HeaderOK(buf)
    /\ Field(buf, 8) >= 0
    /\ \A i \in 1..Field(buf, 8) : RawDescriptorOK(buf, i)

\* contents_offset and contents_len of descriptor i, exactly
RawOffset(buf, i) == UnpackI(PySlice(buf, DescAt(i) + 248, DescAt(i) + 252))
RawLength(buf, i) == UnpackI(PySlice(buf, DescAt(i) + 252, DescAt(i) + 256))

\* The content slice of descriptor i ends after the end of the file
SliceOutside(buf, i) ==
    LET start == ToBig(16 + 256 * Field(buf, 8))
        stop == BigAdd(BigAdd(start, RawOffset(buf, i)), RawLength(buf, i))
    IN  ~BigLeq(stop, ToBig(Len(buf)))

\* The value a dict holds for a key
Lookup(d, k) == d[CHOOSE i \in 1..Len(d) : d[i][1] = k][2]

\* C4: entries are returned only for a file that starts with the magic and
\* holds version 1.  A magic that differs in any bit gives magic mismatch,
\* whatever the version and the entry count; the magic with another version
\* gives unsupported version; either way no descriptor is read and nothing is
\* returned.
C4_HeaderRejection ==
    pc = "done" =>
        /\ decoded.status = "OK" => HeaderOK(data)
        /\ (Len(data) >= 8 /\ PySlice(data, 0, 8) # MagicBytes) =>
              decoded = [status |-> "MagicMismatch", ret |-> <<>>, descriptors |-> <<>>]
        /\ (Len(data) >= 16 /\ PySlice(data, 0, 8) = MagicBytes
              /\ PySlice(data, 12, 16) # <<1, 0, 0, 0>>) =>
              decoded = [status |-> "UnsupportedVersion", ret |-> <<>>,
                         descriptors |-> <<>>]

\* A file with one bit of the magic flipped, version 1 and two entries announced
\* was refused
C4_Witness ==
    /\ pc = "done"
    /\ decoded.status = "MagicMismatch"
    /\ \E k \in 0..63 : PySlice(data, 0, 8) = FlipBit(MagicBytes, k)
    /\ PySlice(data, 8, 16) = <<2, 0, 0, 0, 1, 0, 0, 0>>

\* C5 as stated: encoding succeeds when every name takes at most 247 bytes and
\* fails with name too long, returning nothing, when some name takes 248 or
\* more; decoding fails with name too long, returning nothing, when one of the
\* first entry_count descriptors holds a name_len of 248..255.
C5_AsStated ==
    /\ pc = "encoded" =>
          /\ ValidNames(files_dict) => archive_data.status = "OK"
          /\ (\E i \in 1..Len(files_dict) : Len(NameBytes(files_dict[i][1])) > 247)
                => archive_data = [status |-> "NameTooLong", buf |-> <<>>]
    /\ (pc = "done" /\ HeaderOK(data) /\ Field(data, 8) >= 0
          /\ \E i \in 1..Field(data, 8) : HasLongName(data, i)) =>
          (decoded.status = "NameTooLong" /\ decoded.ret = <<>>)

\* C5, amended: encoding is as stated.  Decoding a file with a good header in
\* which one of the first entry_count descriptors holds a name_len of 248..255
\* fails and returns nothing; the failure is name too long unless a descriptor
\* before the first such one holds a name that is not UTF-8, and then it is
\* UnicodeDecodeError.
C5_NameLengthBoundary ==
    /\ pc = "encoded" =>
          /\ ValidNames(files_dict) => archive_data.status = "OK"
          /\ (\E i \in 1..Len(files_dict) : Len(NameBytes(files_dict[i][1])) > 247)
                => archive_data = [status |-> "NameTooLong", buf |-> <<>>]
    /\ (pc = "done" /\ HeaderOK(data) /\ Field(data, 8) >= 0
          /\ \E i \in 1..Field(data, 8) : HasLongName(data, i)) =>
          LET first == CHOOSE i \in 1..Field(data, 8) :
                          /\ HasLongName(data, i)
                          /\ \A j \in 1..(i - 1) : ~HasLongName(data, j)
          IN  /\ decoded.ret = <<>>
              /\ decoded.status =
                    IF \A j \in 1..(first - 1) : Utf8Decode(RawName(data, j)).ok
                    THEN "NameTooLong" ELSE "UnicodeDecodeError"

\* A file whose second descriptor holds name_len 248, after a valid first one,
\* was refused as name too long
C5_Witness ==
    /\ pc = "done"
    /\ HeaderOK(data)
    /\ Field(data, 8) = 2
    /\ RawDescriptorOK(data, 1)
    /\ data[DescAt(2) + 1] = 248
    /\ decoded.status = "NameTooLong"

\* C7 as stated: on success the entry_count returned equals the number of
\* descriptors read and the number of entries of the mapping returned, also
\* when descriptors repeat a name.
C7_AsStated ==
    (pc = "done" /\ decoded.status = "OK") =>
        /\ decoded.ret[2] = UnpackI(PySlice(data, 8, 12))
        /\ decoded.ret[2] = [hi |-> 0, lo |-> Len(decoded.descriptors)]
        /\ Len(decoded.ret[1]) = Len(decoded.descriptors)

\* C7, amended: on success the entry_count returned is the header field and
\* equals the number of descriptors read; the mapping returned has one entry
\* per distinct name among them, so as many entries as entry_count exactly
\* when no name is repeated, and fewer otherwise.
C7_EntryCount ==
    (pc = "done" /\ decoded.status = "OK") =>
        LET names == {RawName(data, i) : i \in 1..Len(decoded.descriptors)}
        IN  /\ decoded.ret[2] = UnpackI(PySlice(data, 8, 12))
            /\ decoded.ret[2] = [hi |-> 0, lo |-> Len(decoded.descriptors)]
            /\ Len(decoded.ret[1]) = Cardinality(names)
            /\ Cardinality(AsMap(decoded.ret[1])) = Cardinality(names)

\* A file of two descriptors under one name was decoded to one entry
C7_Witness ==
    /\ pc = "done"
    /\ decoded.status = "OK"
    /\ decoded.ret[2] = [hi |-> 0, lo |-> 2]
    /\ RawName(data, 1) = RawName(data, 2)
    /\ Len(decoded.ret[1]) = 1

\* C8: a file with a good header whose descriptors are all present with valid
\* names is decoded also when names repeat, and each name is mapped to the
\* content slice of the last descriptor that holds it.
C8_LastWriteWins ==
    pc = "done" =>
        /\ WellFormedTable(data) => decoded.status = "OK"
        /\ decoded.status = "OK" =>
              \A i \in 1..Field(data, 8) :
                  LET n == Field(data, 8)
                      last == CHOOSE j \in i..n :
                                  /\ RawName(data, j) = RawName(data, i)
                                  /\ \A k \in (j + 1)..n :
                                        RawName(data, k) # RawName(data, i)
                      start == BigAdd(ToBig(16 + 256 * n), RawOffset(data, last))
                  IN  Lookup(decoded.ret[1], Utf8Decode(RawName(data, i)).str)
                         = PySliceBig(data, start, BigAdd(start, RawLength(data, last)))

\* Two descriptors under one name with different slices: the second one won
C8_Witness ==
    /\ pc = "done"
    /\ decoded.status = "OK"
    /\ Field(data, 8) = 2
    /\ RawName(data, 1) = RawName(data, 2)
    /\ RawOffset(data, 1) # RawOffset(data, 2)
    /\ RawLength(data, 2) = [hi |-> 0, lo |-> 3]
    /\ decoded.ret[1][1][2] = <<98, 121, 101>>

\* C2: a file in which the content slice of some descriptor ends after the end
\* of the file is refused, and no content shorter than its contents_len is
\* ever returned.
C2_TruncationRejected ==
    (pc = "done" /\ WellFormedTable(data)) =>
        /\ (\E i \in 1..Field(data, 8) : SliceOutside(data, i)) => decoded.status # "OK"
        /\ decoded.status = "OK" =>
              \A i \in 1..Len(decoded.ret[1]) :
                  LET holds == {j \in 1..Len(decoded.descriptors) :
                                   decoded.descriptors[j][1] = decoded.ret[1][i][1]}
                      last == CHOOSE j \in holds : \A k \in holds : k <= j
                  IN  decoded.descriptors[last][3]
                         = [hi |-> 0, lo |-> Len(decoded.ret[1][i][2])]


\* The sum of the first n sizes of a dict given by sizes
RECURSIVE SumSizes(_, _)
SumSizes(q, n) == IF n = 0 THEN [hi |-> 0, lo |-> 0] ELSE BigAdd(SumSizes(q, n - 1), q[n][2])

\* Some contents_offset or contents_len of the dict is above 2^32 - 1
Overflows(d) ==
    LET q == Ascending(d)
    IN  \E i \in 1..Len(q) : SumSizes(q, i - 1).hi >= 65536 \/ q[i][2].hi >= 65536

\* The four bytes of a u32 field
FieldBytes(v) == <<v.lo % 256, v.lo \div 256, v.hi % 256, v.hi \div 256>>

\* C6 as stated: when the running sum that becomes a contents_offset, or a
\* contents_len, is above 2^32 - 1, encoding fails with the out-of-range error
\* and returns nothing; no descriptor written holds a value reduced modulo 2^32.
C6_AsStated ==
    pc = "encoded" =>
        /\ Overflows(file_sizes) =>
              /\ archive_data.status = "StructError"
              /\ archive_data.table = <<>>
        /\ archive_data.status = "OK" => ~Overflows(file_sizes)

\* C6, amended: in that case encoding fails and returns nothing; the failure is
\* the out-of-range error of struct.pack when every name is valid, and name
\* too long when some name takes 248 bytes or more, names being checked before
\* any field is written.  Whenever bytes are returned no value is above
\* 2^32 - 1 and every offset and length field holds the exact value.
C6_OverflowRejected ==
    pc = "encoded" =>
        /\ Overflows(file_sizes) =>
              /\ archive_data.table = <<>>
              /\ archive_data.status =
                    IF ValidNames(file_sizes) THEN "StructError" ELSE "NameTooLong"
        /\ archive_data.status = "OK" =>
              /\ ~Overflows(file_sizes)
              /\ LET q == Ascending(file_sizes)
                 IN  \A i \in 1..Len(file_sizes) :
                        /\ PySlice(archive_data.table, DescAt(i) + 248, DescAt(i) + 252)
                              = FieldBytes(SumSizes(q, i - 1))
                        /\ PySlice(archive_data.table, DescAt(i) + 252, DescAt(i) + 256)
                              = FieldBytes(q[i][2])
              /\ Len(archive_data.table) = 16 + 256 * Len(file_sizes)
              /\ archive_data.length
                    = BigAdd(ToBig(16 + 256 * Len(file_sizes)),
                             SumSizes(Ascending(file_sizes), Len(file_sizes)))

\* Three contents that each fit, the third at an offset of 2^32 or more, under
\* valid names: refused
C6_Witness ==
    /\ pc = "encoded"
    /\ Len(file_sizes) = 3
    /\ ValidNames(file_sizes)
    /\ \A i \in 1..3 : file_sizes[i][2].hi < 65536
    /\ Overflows(file_sizes)
    /\ archive_data.status = "StructError"
    /\ archive_data.table = <<>>

-----------------------------------------------------------------------------
\* How many of the announced descriptors are in the file whole
WholeInFile(buf) == IF Len(buf) < 16 THEN 0 ELSE (Len(buf) - 16) \div 256

\* C11: a file with a good header that is shorter than the descriptor table
\* the header announces (16 + 256 * entry_count bytes) is refused with an
\* exception: nothing is returned, and no descriptor that is only partly in
\* the file is ever taken into entry_descriptors.
C11_TruncatedTable ==
    (pc = "done" /\ HeaderOK(data) /\ Field(data, 8) >= 0
        /\ Len(data) < 16 + 256 * Field(data, 8)) =>
        /\ decoded.status \in {"StructError", "NameTooLong", "UnicodeDecodeError"}
        /\ decoded.ret = <<>>
        /\ Len(decoded.descriptors) <= WholeInFile(data)

\* The file ends 100 bytes into its only descriptor, whose name_len is 247:
\* the name slice is shorter than name_len, and reading contents_offset fails
C11_Witness ==
    /\ pc = "done"
    /\ HeaderOK(data)
    /\ Field(data, 8) = 1
    /\ Len(data) = 16 + 100
    /\ data[17] = ENTRY_NAME_LEN_MAX
    /\ Len(PySlice(data, 17, 17 + data[17])) < data[17]
    /\ decoded.status = "StructError"
    /\ decoded.ret = <<>>

-----------------------------------------------------------------------------
\* No two descriptors hold the same name
DistinctNames(buf) ==
    \A i, j \in 1..Field(buf, 8) : RawName(buf, i) = RawName(buf, j) => i = j

\* contents_offset and contents_len of descriptor i as numbers (-1 from 2^24 on)
OffsetOf(buf, i) == Field(buf, DescAt(i) + 248)
LengthOf(buf, i) == Field(buf, DescAt(i) + 252)

\* The bytes [contents_offset, contents_offset + contents_len) of the content
\* region, which starts right after the announced table
SliceOf(buf, i) ==
    LET content_start == 16 + 256 * Field(buf, 8)
    IN  SubSeq(buf, content_start + OffsetOf(buf, i) + 1,
               content_start + OffsetOf(buf, i) + LengthOf(buf, i))

\* The slices of descriptors i and j have a byte in common
Overlap(buf, i, j) ==
    /\ OffsetOf(buf, i) < OffsetOf(buf, j) + LengthOf(buf, j)
    /\ OffsetOf(buf, j) < OffsetOf(buf, i) + LengthOf(buf, i)

\* The file with the bytes of every name field after the first name_len set to zero
ZeroPadding(buf) ==
    LET n == Field(buf, 8)
        clean(i) == <<buf[DescAt(i) + 1]>> \o RawName(buf, i)
                    \o ZeroBytes(ENTRY_NAME_LEN_MAX - buf[DescAt(i) + 1])
                    \o PySlice(buf, DescAt(i) + 248, DescAt(i) + 256)
    IN  PySlice(buf, 0, 16) \o Join([i \in 1..n |-> clean(i)])
        \o PySlice(buf, 16 + 256 * n, Len(buf))

\* C12: a file with a good header whose descriptors are all present with valid
\* and distinct names, and whose slices all lie inside the file, is decoded,
\* whether the slices overlap, leave gaps or are out of order; the result
\* holds, in descriptor order, every name with exactly the bytes
\* [contents_offset, contents_offset + contents_len) of the content region that
\* starts at 16 + 256 * entry_count, and it is the same when the bytes of the
\* name fields after the names are zeroed.
C12_IndependentDescriptors ==
    (pc = "done" /\ WellFormedTable(data) /\ DistinctNames(data)
        /\ \A i \in 1..Field(data, 8) : ~SliceOutside(data, i)) =>
        /\ decoded.status = "OK"
        /\ Len(decoded.ret[1]) = Field(data, 8)
        /\ \A i \in 1..Field(data, 8) :
              decoded.ret[1][i] = <<Utf8Decode(RawName(data, i)).str, SliceOf(data, i)>>
        /\ decoded.ret = decode_brarchive_to_dict(ZeroPadding(data)).ret

\* Two descriptors, "a" -> [2, 5) with 255 after its name and "b" -> [1, 4),
\* before the content b"hibye": the slices overlap, the second starts before
\* the first, byte 0 belongs to neither, and each name got its own slice
C12_Witness ==
    /\ pc = "done"
    /\ decoded.status = "OK"
    /\ Field(data, 8) = 2
    /\ DistinctNames(data)
    /\ Overlap(data, 1, 2)
    /\ OffsetOf(data, 2) < OffsetOf(data, 1)
    /\ OffsetOf(data, 2) > 0
    /\ data[DescAt(1) + 3] = 255
    /\ ZeroPadding(data) # data
    /\ decoded.ret[1] = <<<<<<97>>, <<98, 121, 101>>>>, <<<<98>>, <<105, 98, 121>>>>>>

====
